---- MODULE Spec2Model ----
(***************************************************************************)
(* Model of the MCP demo client (src/src/client/mcp_client.py) and of the  *)
(* tool server it launches (src/src/server/example_server.py).             *)
(*                                                                         *)
(* Four specifications share the variables below:                          *)
(*   SpecTools   the two server tools, applied to bounded inputs           *)
(*   SpecPrompt  process_local_prompt, applied to bounded inputs           *)
(*   Spec        run(): the scripted main flow, with the sampling callback *)
(*               the session may invoke while the session is open          *)
(*   SpecRouter  the interactive Command Router of spec.md section 4.3     *)
(***************************************************************************)
EXTENDS Integers, Sequences, FiniteSets, TLC

VARIABLES
    \* ---- server tools (example_server.py)
    toolCall,       \* the last tool invocation: name and arguments
    toolResult,     \* what that invocation produced
    httpGets,       \* outbound GETs issued by the last invocation
    \* ---- process_local_prompt (mcp_client.py:99-126)
    promptCall,     \* the last process_local_prompt call: id and args
    promptResult,   \* its outcome
    promptSent,     \* completion requests sent by that call
    \* ---- run() and handle_openai_sampling (mcp_client.py:41-202)
    pc,             \* position of the main flow
    mainReq,        \* the request the main flow is suspended on
    cbPc,           \* position of every sampling callback execution
    cbContent,      \* user_content of each callback execution
    cbResult,       \* per callback execution: what it returned and printed
    printed,        \* lines printed by run() so far, in order
    requests,       \* message lists sent to the Remote Completion Client
    replies,        \* per request: the reply, "pending" or "failed"
    answered,       \* per request: the requests answered before it was sent
    samplings,      \* sampling requests received so far
    \* ---- Command Router (spec.md 4.3)
    routerPc,       \* "loop" or "exited"
    transcript,     \* the Conversation Transcript
    lastInput,      \* the line read by the last iteration
    lastRoute,      \* the path the last iteration took
    toolCalls,      \* tool calls made through the Session Bridge
    completions,    \* completion requests made by the router
    exchanges       \* completed exchanges

toolVars   == <<toolCall, toolResult, httpGets>>
promptVars == <<promptCall, promptResult, promptSent>>
clientVars == <<pc, mainReq, cbPc, cbContent, cbResult, printed, requests,
                replies, answered, samplings>>
routerVars == <<routerPc, transcript, lastInput, lastRoute, toolCalls,
                completions, exchanges>>
vars == <<toolVars, promptVars, clientVars, routerVars>>

-----------------------------------------------------------------------------
(* Bounds *)

MaxNum == 3          \* numerators of the tools' numeric arguments
MaxDen == 2          \* denominators of the tools' numeric arguments
MaxCoord == 1        \* |latitude|, |longitude|

-----------------------------------------------------------------------------
(* Numbers.  A Python float argument is modelled as an exact fraction      *)
(* num/den with den > 0.                                                   *)

Rat(n, d) == [num |-> n, den |-> d]

RatMul(a, b) == Rat(a.num * b.num, a.den * b.den)

RatEq(a, b) == a.num * b.den = b.num * a.den

\* height_m ** 2
Pow2(h) == Rat(h.num * h.num, h.den * h.den)

\* a / b: Python raises ZeroDivisionError when b == 0
ZeroDivisionError == [kind |-> "error", error |-> "ZeroDivisionError"]

TrueDiv(a, b) ==
    IF b.num = 0
    THEN ZeroDivisionError
    ELSE [kind |-> "value",
          value |-> IF b.num > 0 THEN Rat(a.num * b.den, a.den * b.num)
                                 ELSE Rat(-(a.num * b.den), -(a.den * b.num))]

-----------------------------------------------------------------------------
(* example_server.py *)

\* a slip: height_m * 2 instead of height_m ** 2
calculate_bmi_double(weight_kg, height_m) ==
    TrueDiv(weight_kg, Rat(2 * height_m.num, height_m.den))

\* calculate_bmi: return weight_kg / (height_m ** 2)
calculate_bmi(weight_kg, height_m) == TrueDiv(weight_kg, Pow2(height_m))

\* The URL fetch_weather builds: the fixed endpoint with the two coordinates.
WeatherUrl(latitude, longitude) ==
    [host |-> "api.open-meteo.com", path |-> "/v1/forecast",
     latitude |-> latitude, longitude |-> longitude,
     current_weather |-> TRUE,
     hourly |-> <<"temperature_2m", "relative_humidity_2m", "wind_speed_10m">>]

\* What the network answers to a GET: a response with a body (any status),
\* or a failure of the request itself.
Bodies == {"", "{\"current_weather\": {\"temperature\": 18.3}}", "<html>502</html>"}
Responses == [kind : {"response"}, text : Bodies]
                 \cup {[kind |-> "error", text |-> "ConnectError"]}

\* a retry: on a failed GET, a second GET is issued and its answer is used
fetch_weather_retry(latitude, longitude, net) ==
    IF net[1].kind = "error"
    THEN [gets |-> <<WeatherUrl(latitude, longitude), WeatherUrl(latitude, longitude)>>,
          result |-> IF net[2].kind = "response"
                     THEN [kind |-> "value", value |-> net[2].text]
                     ELSE [kind |-> "error", error |-> net[2].text]]
    ELSE [gets |-> <<WeatherUrl(latitude, longitude)>>,
          result |-> [kind |-> "value", value |-> net[1].text]]

\* fetch_weather: one client.get(url); return response.text.  net[i] is what
\* the network would answer to the i-th GET of this invocation.
fetch_weather(latitude, longitude, net) ==
    [gets |-> <<WeatherUrl(latitude, longitude)>>,
     result |-> IF net[1].kind = "response"
                THEN [kind |-> "value", value |-> net[1].text]
                ELSE [kind |-> "error", error |-> net[1].text]]

Weights == {Rat(n, d) : n \in 1..MaxNum, d \in 1..MaxDen}
Heights == {Rat(n, d) : n \in 0..MaxNum, d \in 1..MaxDen}
Coords  == (-MaxCoord)..MaxCoord

NoCall == [name |-> "none"]
NoResult == [kind |-> "none"]

InitTools ==
    /\ toolCall = NoCall
    /\ toolResult = NoResult
    /\ httpGets = <<>>

\* A call_tool("calculate_bmi", ...) served by the tool.
CalculateBmi ==
    \E w \in Weights, h \in Heights :
        /\ toolCall' = [name |-> "calculate_bmi", weight_kg |-> w, height_m |-> h]
        /\ toolResult' = calculate_bmi(w, h)
        /\ httpGets' = <<>>
        /\ UNCHANGED <<promptVars, clientVars, routerVars>>

\* A call_tool("fetch_weather", ...) served by the tool.
FetchWeather ==
    \E lat \in Coords, lon \in Coords, net \in [1..2 -> Responses] :
        LET r == fetch_weather(lat, lon, net) IN
        /\ toolCall' = [name |-> "fetch_weather", latitude |-> lat,
                        longitude |-> lon, net |-> net]
        /\ toolResult' = r.result
        /\ httpGets' = r.gets
        /\ UNCHANGED <<promptVars, clientVars, routerVars>>

-----------------------------------------------------------------------------
(* mcp_client.py: DUMMY_PROMPTS and process_local_prompt *)

Lit(t) == [kind |-> "lit", text |-> t]
Ph(a)  == [kind |-> "ph", text |-> a]

\* A template is the sequence of its literal pieces and {placeholders}.
DUMMY_PROMPTS ==
    [p \in {"weather-assistant", "code-helper"} |->
        IF p = "weather-assistant"
        THEN [template |->
                <<Lit("You are a weather assistant. The current weather in "),
                  Ph("location"), Lit(" is "), Ph("temperature"),
                  Lit("C with "), Ph("conditions"),
                  Lit(". Please provide a friendly weather report and clothing recommendation.")>>,
              required_args |-> <<"location", "temperature", "conditions">>]
        ELSE [template |->
                <<Lit("You are a coding assistant. Please help the user with their "),
                  Ph("language"), Lit(" code problem: "), Ph("problem")>>,
              required_args |-> <<"language", "problem">>]]

\* for arg in required_args: if arg not in args: raise -- the first one missing
MissingArgs(required_args, args) ==
    {i \in 1..Len(required_args) : required_args[i] \notin DOMAIN args}

FirstMissing(required_args, args) ==
    required_args[CHOOSE i \in MissingArgs(required_args, args) :
                     \A j \in MissingArgs(required_args, args) : i <= j]

\* prompt_text.replace("{name}", str(value)) for every item of args
FillTemplate(template, args) ==
    [i \in 1..Len(template) |->
        IF template[i].kind = "ph" /\ template[i].text \in DOMAIN args
        THEN Lit(args[template[i].text])
        ELSE template[i]]

Msg(role, content) == [role |-> role, content |-> content]

\* What the Remote Completion Client answers to one request.
ReplyTexts == {"reply"}
Completions == [kind : {"ok"}, text : ReplyTexts]
                  \cup {[kind |-> "error", text |-> "APIError"]}

PromptRequest(prompt_text) ==
    <<Msg("system", prompt_text),
      Msg("user", <<Lit("Please help me based on this information.")>>)>>

\* a slip: the request is sent first and the arguments are checked afterwards
process_local_prompt_unchecked(prompt_id, args, completion) ==
    LET id == IF prompt_id \in DOMAIN DUMMY_PROMPTS THEN prompt_id
              ELSE "code-helper"
        prompt_info == DUMMY_PROMPTS[id]
        sent == <<PromptRequest(FillTemplate(prompt_info.template, args))>>
    IN  IF prompt_id \notin DOMAIN DUMMY_PROMPTS
        THEN [kind |-> "raise", error |-> "Unknown prompt", detail |-> prompt_id,
              sent |-> sent]
        ELSE IF MissingArgs(prompt_info.required_args, args) # {}
        THEN [kind |-> "raise", error |-> "Missing required argument",
              detail |-> FirstMissing(prompt_info.required_args, args),
              sent |-> sent]
        ELSE IF completion.kind = "error"
        THEN [kind |-> "raise", error |-> completion.text, detail |-> "",
              sent |-> sent]
        ELSE [kind |-> "return", value |-> completion.text, sent |-> sent]

\* process_local_prompt(prompt_id, args); completion is the answer the
\* completion endpoint gives if it is asked.
process_local_prompt(prompt_id, args, completion) ==
    IF prompt_id \notin DOMAIN DUMMY_PROMPTS
    THEN [kind |-> "raise", error |-> "Unknown prompt", detail |-> prompt_id,
          sent |-> <<>>]
    ELSE LET prompt_info == DUMMY_PROMPTS[prompt_id] IN
         IF MissingArgs(prompt_info.required_args, args) # {}
         THEN [kind |-> "raise", error |-> "Missing required argument",
               detail |-> FirstMissing(prompt_info.required_args, args),
               sent |-> <<>>]
         ELSE LET prompt_text == FillTemplate(prompt_info.template, args)
                  sent == <<PromptRequest(prompt_text)>>
              IN  IF completion.kind = "error"
                  THEN [kind |-> "raise", error |-> completion.text,
                        detail |-> "", sent |-> sent]
                  ELSE [kind |-> "return", value |-> completion.text,
                        sent |-> sent]

PromptIds == {"weather-assistant", "code-helper", "example-prompt"}
ArgNames  == {"location", "temperature", "conditions", "language", "problem", "units"}
ArgValues == {"22"}
ArgDicts  == UNION {[S -> ArgValues] : S \in SUBSET ArgNames}

InitPrompt ==
    /\ promptCall = NoCall
    /\ promptResult = NoResult
    /\ promptSent = <<>>

ProcessLocalPrompt ==
    \E id \in PromptIds, args \in ArgDicts, completion \in Completions :
        LET r == process_local_prompt(id, args, completion) IN
        /\ promptCall' = [name |-> id, args |-> args]
        /\ promptResult' = [f \in DOMAIN r \ {"sent"} |-> r[f]]
        /\ promptSent' = r.sent
        /\ UNCHANGED <<toolVars, clientVars, routerVars>>

-----------------------------------------------------------------------------
(* mcp_client.py: run() *)

MaxSamplings == 2    \* sampling requests the server sends in one run

\* The awaited calls of run(), in program order.
Steps == <<"initialize", "list_tools", "call_bmi", "call_weather",
           "list_prompts", "weather_prompt", "code_prompt", "get_prompt",
           "list_resources">>

\* The calls that go to the Session Bridge, and those that go through
\* process_local_prompt to the Remote Completion Client.
SessionSteps == {"initialize", "list_tools", "call_bmi", "call_weather",
                 "list_prompts", "get_prompt", "list_resources"}
PromptSteps == {"weather_prompt", "code_prompt"}

StepIndex(step) == CHOOSE i \in 1..Len(Steps) : Steps[i] = step

\* Where control goes when the call at step returns normally.
NextStep(step) ==
    IF StepIndex(step) = Len(Steps) THEN "done" ELSE Steps[StepIndex(step) + 1]

Line(tag, step) == [tag |-> tag, step |-> step]

\* what run() would do if the except of lines 192-193 were missing
OnRaise_unguarded(step) == [pc |-> "crashed", print |-> Line("Traceback", step)]

\* Where control goes when the call at step raises: the except clause that
\* encloses the call, or out of run() when no try encloses it.
OnRaise(step) ==
    CASE step = "call_bmi" ->
            [pc |-> "call_weather", print |-> Line("Error calling calculate_bmi", step)]
      [] step = "call_weather" ->
            [pc |-> "list_prompts", print |-> Line("Error calling fetch_weather", step)]
      [] step = "get_prompt" ->
            [pc |-> "list_resources",
             print |-> Line("Server doesn't support this prompt", step)]
      [] step \in PromptSteps ->
            [pc |-> "list_resources",
             print |-> Line("Error processing local prompts", step)]
      [] OTHER ->
            [pc |-> "crashed", print |-> Line("Traceback", step)]

\* The line printed after the call at step returned.
OnReturn(step) ==
    CASE step = "initialize" -> Line("Listing tools...", step)
      [] step = "list_tools" -> Line("Available tools", step)
      [] step = "call_bmi" -> Line("BMI calculation result", step)
      [] step = "call_weather" -> Line("Weather data", step)
      [] step = "list_prompts" -> Line("Available server prompts", step)
      [] step = "weather_prompt" -> Line("Weather assistant response", step)
      [] step = "code_prompt" -> Line("Code helper response", step)
      [] step = "get_prompt" -> Line("Server prompt result", step)
      [] step = "list_resources" -> Line("Available resources", step)

\* The arguments run() passes to process_local_prompt.
PromptId(step) == IF step = "weather_prompt" THEN "weather-assistant" ELSE "code-helper"

weather_args ==
    [a \in {"location", "temperature", "conditions"} |->
        CASE a = "location" -> "New York"
          [] a = "temperature" -> "22"
          [] a = "conditions" -> "partly cloudy"]

code_args ==
    [a \in {"language", "problem"} |->
        IF a = "language" THEN "Python" ELSE "How do I read a JSON file in Python?"]

PromptArgs(step) == IF step = "weather_prompt" THEN weather_args ELSE code_args

\* a slip: the next call is issued without awaiting the previous one
Awaited_not == TRUE

\* `await`: the main flow issues a call only when it is suspended on none.
Awaited == mainReq = <<>>

\* The main flow is suspended in an await: only then can the event loop run
\* anything else, the sampling callback included.
Suspended == mainReq # <<>>

\* The requests that have been answered with a generated text.
Answered(r) == {j \in DOMAIN r : r[j] \notin {"pending", "failed"}}

\* Leaving the two `async with` blocks cancels what the session still runs.
Cancel(cb) == [i \in DOMAIN cb |-> IF cb[i] = "awaiting" THEN "cancelled" ELSE cb[i]]

InitClient ==
    /\ pc = "initialize"
    /\ mainReq = <<>>
    /\ cbPc = <<>>
    /\ cbContent = <<>>
    /\ cbResult = <<>>
    /\ printed = <<>>
    /\ requests = <<>>
    /\ replies = <<>>
    /\ answered = <<>>
    /\ samplings = 0

\* await session.<call>(...): the request goes out and run() is suspended.
SessionCall(step) ==
    /\ pc = step
    /\ step \in SessionSteps
    /\ Awaited
    /\ mainReq' = Append(mainReq, [kind |-> "session", step |-> step])
    /\ UNCHANGED <<pc, cbPc, cbContent, cbResult, printed, requests, replies,
                   answered, samplings>>
    /\ UNCHANGED <<toolVars, promptVars, routerVars>>

\* The response arrives: a result, or an error raised at the await.
SessionReturn(step) ==
    /\ pc = step
    /\ mainReq # <<>>
    /\ Head(mainReq) = [kind |-> "session", step |-> step]
    /\ mainReq' = Tail(mainReq)
    /\ \E ok \in BOOLEAN :
          LET to == IF ok THEN [pc |-> NextStep(step), print |-> OnReturn(step)]
                          ELSE OnRaise(step)
          IN  /\ pc' = to.pc
              /\ printed' = Append(printed, to.print)
              /\ cbPc' = IF to.pc \in {"done", "crashed"} THEN Cancel(cbPc) ELSE cbPc
    /\ UNCHANGED <<cbContent, cbResult, requests, replies, answered, samplings>>
    /\ UNCHANGED <<toolVars, promptVars, routerVars>>

\* await process_local_prompt(...): validation, then the completion request
\* goes out and run() is suspended on it; answer is what the endpoint will
\* give.  A validation error is raised before anything is sent.
PromptCall(step) ==
    /\ pc = step
    /\ step \in PromptSteps
    /\ Awaited
    /\ \E answer \in Completions :
          LET r == process_local_prompt(PromptId(step), PromptArgs(step), answer) IN
          IF r.sent = <<>>
          THEN /\ pc' = OnRaise(step).pc
               /\ printed' = Append(printed, OnRaise(step).print)
               /\ UNCHANGED <<mainReq, requests, replies, answered>>
          ELSE /\ mainReq' = Append(mainReq,
                        [kind |-> "completion", step |-> step, answer |-> answer,
                         request |-> Len(requests) + 1])
               /\ requests' = Append(requests, r.sent[1])
               /\ replies' = Append(replies, "pending")
               /\ answered' = Append(answered, Answered(replies))
               /\ UNCHANGED <<pc, printed>>
    /\ UNCHANGED <<cbPc, cbContent, cbResult, samplings>>
    /\ UNCHANGED <<toolVars, promptVars, routerVars>>

\* The completion arrives: process_local_prompt returns the text, or the
\* error raised at its await leaves it and reaches run().
PromptReturn(step) ==
    /\ pc = step
    /\ mainReq # <<>>
    /\ Head(mainReq).kind = "completion"
    /\ Head(mainReq).step = step
    /\ LET req == Head(mainReq)
           r == process_local_prompt(PromptId(step), PromptArgs(step), req.answer)
           to == IF r.kind = "return"
                 THEN [pc |-> NextStep(step), print |-> OnReturn(step)]
                 ELSE OnRaise(step)
       IN  /\ mainReq' = Tail(mainReq)
           /\ replies' = [replies EXCEPT ![req.request] =
                              IF r.kind = "return" THEN r.value ELSE "failed"]
           /\ pc' = to.pc
           /\ printed' = Append(printed, to.print)
           /\ cbPc' = IF to.pc \in {"done", "crashed"} THEN Cancel(cbPc) ELSE cbPc
    /\ UNCHANGED <<cbContent, cbResult, requests, answered, samplings>>
    /\ UNCHANGED <<toolVars, promptVars, routerVars>>

Initialize     == SessionCall("initialize") \/ SessionReturn("initialize")
ListTools      == SessionCall("list_tools") \/ SessionReturn("list_tools")
CallBmi        == SessionCall("call_bmi") \/ SessionReturn("call_bmi")
CallWeather    == SessionCall("call_weather") \/ SessionReturn("call_weather")
ListPrompts    == SessionCall("list_prompts") \/ SessionReturn("list_prompts")
WeatherPrompt  == PromptCall("weather_prompt") \/ PromptReturn("weather_prompt")
CodePrompt     == PromptCall("code_prompt") \/ PromptReturn("code_prompt")
GetPrompt      == SessionCall("get_prompt") \/ SessionReturn("get_prompt")
ListResources  == SessionCall("list_resources") \/ SessionReturn("list_resources")

-----------------------------------------------------------------------------
(* mcp_client.py: handle_openai_sampling *)

\* A sampling request's params.messages: each message has a role and a list
\* of content items, each item a type and, for a text item, its text.
Texts == {<<>>, <<Lit("hi")>>}
Items == [type : {"text", "image"}, text : Texts]
Contents == {<<>>} \cup {<<i>> : i \in Items} \cup {<<i, j>> : i, j \in Items}
Earlier == [role |-> "assistant",
            content |-> <<[type |-> "text", text |-> <<Lit("earlier turn")>>]>>]
SamplingMessages ==
    {<<>>} \cup {<<[role |-> "user", content |-> c]>> : c \in Contents}
           \cup {<<Earlier, [role |-> "user", content |-> c]>> : c \in Contents}

\* for content_item in last_message.content:
\*     if content_item.type == "text": user_content += content_item.text
RECURSIVE TextOf(_)
TextOf(content) ==
    IF content = <<>> THEN <<>>
    ELSE (IF Head(content).type = "text" THEN Head(content).text ELSE <<>>)
            \o TextOf(Tail(content))

\* user_content, with the fall-back when nothing could be extracted
UserContent(messages) ==
    LET extracted == IF Len(messages) > 0
                     THEN TextOf(messages[Len(messages)].content)
                     ELSE <<>>
    IN  IF extracted = <<>> THEN <<Lit("Hello, please assist me.")>> ELSE extracted

\* messages=[system, user] of the callback's completion request
SamplingRequestMessages(user_content) ==
    <<Msg("system", <<Lit("You are a helpful assistant.")>>),
      Msg("user", user_content)>>

\* What the callback does with the endpoint's answer: it returns the
\* generated text, or its except branch prints the error and returns it as
\* the text of a result with stopReason "error".
SamplingResult(answer) ==
    IF answer.kind = "ok"
    THEN [kind |-> "result", role |-> "assistant", text |-> answer.text,
          stopReason |-> "endTurn", printed |-> <<>>]
    ELSE [kind |-> "result", role |-> "assistant",
          text |-> "I encountered an error: " \o answer.text,
          stopReason |-> "error",
          printed |-> <<Line("Error in OpenAI sampling", "sampling")>>]

Awaiting(cb) == {i \in DOMAIN cb : cb[i] = "awaiting"}

\* The session hands one incoming request at a time to its callback: the
\* next one is dispatched when the previous callback has returned.
Dispatchable == Awaiting(cbPc) = {}

\* The session is open from the end of initialize() to the end of run().
SessionOpen == pc \notin {"initialize", "done", "crashed"}

\* The server sends a sampling request: the callback extracts user_content,
\* sends the completion request and is suspended on it.
SamplingCall ==
    /\ SessionOpen
    /\ Suspended
    /\ samplings < MaxSamplings
    /\ Dispatchable
    /\ \E messages \in SamplingMessages :
          LET user_content == UserContent(messages) IN
          /\ cbContent' = Append(cbContent,
                [user_content |-> user_content, request |-> Len(requests) + 1])
          /\ requests' = Append(requests, SamplingRequestMessages(user_content))
    /\ samplings' = samplings + 1
    /\ cbPc' = Append(cbPc, "awaiting")
    /\ cbResult' = Append(cbResult, NoResult)
    /\ replies' = Append(replies, "pending")
    /\ answered' = Append(answered, Answered(replies))
    /\ UNCHANGED <<pc, mainReq, printed>>
    /\ UNCHANGED <<toolVars, promptVars, routerVars>>

\* The completion arrives in the callback, which returns its result to the
\* session; an error is caught by the callback's own except clause.
SamplingReturn ==
    /\ Suspended
    /\ \E i \in Awaiting(cbPc), answer \in Completions :
          /\ cbPc' = [cbPc EXCEPT ![i] = "returned"]
          /\ cbResult' = [cbResult EXCEPT ![i] = SamplingResult(answer)]
          /\ replies' = [replies EXCEPT ![cbContent[i].request] =
                            IF answer.kind = "ok" THEN answer.text ELSE "failed"]
    /\ UNCHANGED <<pc, mainReq, cbContent, printed, requests, answered, samplings>>
    /\ UNCHANGED <<toolVars, promptVars, routerVars>>

-----------------------------------------------------------------------------
(* Command Router (spec.md 4.3): the interactive loop *)

MaxExchanges == 2    \* exchanges of one router run

\* A line of input is a sequence of characters.
Lowers == <<"a", "b", "c", "d", "e", "f", "g", "h", "i", "j", "k", "l", "m",
            "n", "o", "p", "q", "r", "s", "t", "u", "v", "w", "x", "y", "z">>
Uppers == <<"A", "B", "C", "D", "E", "F", "G", "H", "I", "J", "K", "L", "M",
            "N", "O", "P", "Q", "R", "S", "T", "U", "V", "W", "X", "Y", "Z">>

LowerChar(c) ==
    IF \E n \in 1..Len(Uppers) : Uppers[n] = c
    THEN Lowers[CHOOSE n \in 1..Len(Uppers) : Uppers[n] = c]
    ELSE c

UpperChar(c) ==
    IF \E n \in 1..Len(Lowers) : Lowers[n] = c
    THEN Uppers[CHOOSE n \in 1..Len(Lowers) : Lowers[n] = c]
    ELSE c

\* str.lower()
Lower(line) == [i \in 1..Len(line) |-> LowerChar(line[i])]

\* keyword in line
Contains(line, keyword) ==
    \E i \in 0..(Len(line) - Len(keyword)) :
        SubSeq(line, i + 1, i + Len(keyword)) = keyword

W_exit     == <<"e", "x", "i", "t">>
W_weather  == <<"w", "e", "a", "t", "h", "e", "r">>
W_forecast == <<"f", "o", "r", "e", "c", "a", "s", "t">>
W_bmi      == <<"b", "m", "i">>
W_hello    == <<"h", "e", "l", "l", "o">>

\* The static Local Function table, in iteration order.
LOCAL_FUNCTIONS ==
    <<[tool |-> "fetch_weather", keywords |-> {W_weather, W_forecast}],
      [tool |-> "calculate_bmi", keywords |-> {W_bmi}]>>

\* The entries with a keyword in the lower-cased input.
Matches(line) ==
    {n \in 1..Len(LOCAL_FUNCTIONS) :
        \E k \in LOCAL_FUNCTIONS[n].keywords : Contains(Lower(line), k)}

\* a slip: the input is compared as typed
IsExit_cased(line) == line = W_exit

\* input.lower() == "exit"
IsExit(line) == Lower(line) = W_exit

\* a slip: the keywords are looked up in the input as typed
Route_cased(line) ==
    LET m == {n \in 1..Len(LOCAL_FUNCTIONS) :
                 \E k \in LOCAL_FUNCTIONS[n].keywords : Contains(line, k)}
    IN  IF m = {} THEN [kind |-> "completion", tool |-> "none"]
        ELSE [kind |-> "tool",
              tool |-> LOCAL_FUNCTIONS[CHOOSE n \in m : \A o \in m : n <= o].tool]

\* Local-Match with the first matching entry, or Remote-Fallback.
Route(line) ==
    IF Matches(line) = {}
    THEN [kind |-> "completion", tool |-> "none"]
    ELSE [kind |-> "tool",
          tool |-> LOCAL_FUNCTIONS[CHOOSE n \in Matches(line) :
                                      \A o \in Matches(line) : n <= o].tool]

\* The response-formatter: for the weather tool the temperature of the
\* body, or the literal error string when the body is empty or malformed.
FormatResponse(tool, text) ==
    IF tool = "fetch_weather"
    THEN (IF text = "{\"current_weather\": {\"temperature\": 18.3}}"
          THEN <<"18.3", "C">>
          ELSE <<"Error: No response from API">>)
    ELSE <<text>>

\* What a tool call through the Session Bridge returns as its first text.
ToolTexts(tool) ==
    IF tool = "fetch_weather" THEN {"{\"current_weather\": {\"temperature\": 18.3}}", ""}
    ELSE {"22.857142857142858"}

\* The lines the user may type: a word in some letter case, alone or inside
\* a longer line.
Casings == {"lower", "upper", "capital"}
Cased(word, casing) ==
    [i \in 1..Len(word) |->
        IF casing = "upper" \/ (casing = "capital" /\ i = 1)
        THEN UpperChar(word[i]) ELSE word[i]]
Words == {W_exit, W_weather, W_forecast, W_bmi, W_hello}
Inputs ==
    {Cased(w, c) : w \in Words, c \in Casings}
        \cup {<<"m", "y", " ">> \o Cased(w, "upper") : w \in Words}
        \cup {Cased(w, "upper") \o <<" ", "b", "m", "i">> : w \in Words}

InitRouter ==
    /\ routerPc = "loop"
    /\ transcript = <<Msg("system", <<"You are a helpful assistant.">>)>>
    /\ lastInput = <<>>
    /\ lastRoute = [kind |-> "none", tool |-> "none"]
    /\ toolCalls = <<>>
    /\ completions = <<>>
    /\ exchanges = 0

\* "exit": the loop ends.
RouterExit ==
    /\ routerPc = "loop"
    /\ \E line \in Inputs :
          /\ IsExit(line)
          /\ lastInput' = line
    /\ routerPc' = "exited"
    /\ lastRoute' = [kind |-> "exit", tool |-> "none"]
    /\ UNCHANGED <<transcript, toolCalls, completions, exchanges>>
    /\ UNCHANGED <<toolVars, promptVars, clientVars>>

\* Local-Match: the tool is called and both turns are appended.
RouterLocal ==
    /\ routerPc = "loop"
    /\ exchanges < MaxExchanges
    /\ \E line \in Inputs :
          /\ ~IsExit(line)
          /\ Route(line).kind = "tool"
          /\ \E text \in ToolTexts(Route(line).tool) :
                transcript' = transcript \o
                    <<Msg("user", line),
                      Msg("assistant", FormatResponse(Route(line).tool, text))>>
          /\ toolCalls' = Append(toolCalls, Route(line).tool)
          /\ lastInput' = line
          /\ lastRoute' = Route(line)
    /\ exchanges' = exchanges + 1
    /\ UNCHANGED <<routerPc, completions>>
    /\ UNCHANGED <<toolVars, promptVars, clientVars>>

\* Remote-Fallback: the input is appended, the full transcript is sent, and
\* the returned text is appended.
RouterRemote ==
    /\ routerPc = "loop"
    /\ exchanges < MaxExchanges
    /\ \E line \in Inputs, reply \in ReplyTexts :
          /\ ~IsExit(line)
          /\ Route(line).kind = "completion"
          /\ completions' = Append(completions, Append(transcript, Msg("user", line)))
          /\ transcript' = transcript \o <<Msg("user", line), Msg("assistant", <<reply>>)>>
          /\ lastInput' = line
          /\ lastRoute' = Route(line)
    /\ exchanges' = exchanges + 1
    /\ UNCHANGED <<routerPc, toolCalls>>
    /\ UNCHANGED <<toolVars, promptVars, clientVars>>

-----------------------------------------------------------------------------
(* Specifications *)

Init == InitTools /\ InitPrompt /\ InitClient /\ InitRouter

NextTools == CalculateBmi \/ FetchWeather

NextPrompt == ProcessLocalPrompt

Next ==
    \/ Initialize
    \/ ListTools
    \/ CallBmi
    \/ CallWeather
    \/ ListPrompts
    \/ WeatherPrompt
    \/ CodePrompt
    \/ GetPrompt
    \/ ListResources
    \/ SamplingCall
    \/ SamplingReturn

NextRouter == RouterExit \/ RouterLocal \/ RouterRemote

Spec == Init /\ [][Next]_vars

SpecTools == Init /\ [][NextTools]_vars

SpecPrompt == Init /\ [][NextPrompt]_vars

SpecRouter == Init /\ [][NextRouter]_vars

-----------------------------------------------------------------------------
(* Properties of run() and handle_openai_sampling, under Spec *)

\* The Session Bridge calls of run() that C1 names.
ClaimedCalls == {"list_tools", "call_bmi", "call_weather", "list_prompts",
                 "get_prompt", "list_resources"}

\* C1: a Session Bridge call of run() (list_tools, call_tool, list_prompts,
\* get_prompt, list_resources) that fails is caught at that call and run()
\* goes on with its next step: run() is never ended by the error of one of
\* these calls.
C1_EveryCallCaught ==
    pc = "crashed" => printed[Len(printed)].step \notin ClaimedCalls

\* The requests the main flow sent, and those the callback sent.
CallbackRequests == {cbContent[j].request : j \in DOMAIN cbContent}
MainRequests == DOMAIN requests \ CallbackRequests

\* C2: a failure of the Remote Completion call never crashes the client.
\* When the failing answer reaches process_local_prompt in the main flow,
\* run() prints the failure and goes on at list_resources; when it reaches
\* the sampling callback, the callback prints it and returns a result that
\* carries the error text, and the main flow is left where it was.
C2_CompletionFailureCaught ==
    [][ /\ ( /\ mainReq # <<>>
             /\ Head(mainReq).kind = "completion"
             /\ Head(mainReq).answer.kind = "error"
             /\ mainReq' = Tail(mainReq) )
           => /\ pc' = "list_resources"
              /\ printed' = Append(printed,
                                Line("Error processing local prompts", pc))
        /\ \A i \in DOMAIN cbPc :
              ( /\ cbPc[i] = "awaiting"
                /\ cbPc'[i] = "returned"
                /\ replies'[cbContent[i].request] = "failed" )
              => /\ cbResult'[i].kind = "result"
                 /\ cbResult'[i].stopReason = "error"
                 /\ cbResult'[i].printed # <<>>
                 /\ pc' = pc
                 /\ pc' # "crashed"
      ]_vars

\* C2, reached: a completion failed in the main flow and one failed in the
\* callback, and run() stands at list_resources.
C2_Witness ==
    /\ pc = "list_resources"
    /\ \E i \in MainRequests : replies[i] = "failed"
    /\ \E j \in DOMAIN cbResult :
          cbResult[j].kind = "result" /\ cbResult[j].stopReason = "error"

\* C3: after N completed exchanges the conversation the client holds -- the
\* list of turns of its latest completion request, the only one it builds --
\* has 1 system entry followed by 2N entries.
C3_TranscriptLength ==
    (requests # <<>> /\ Answered(replies) = DOMAIN requests)
        => Len(requests[Len(requests)]) = 1 + 2 * Len(requests)

\* C4: every completion request carries the turns of the exchanges completed
\* before it was sent: their user turn and the assistant turn that answered.
C4_FullTranscript ==
    \A k \in DOMAIN requests : \A j \in answered[k] :
        /\ \E m \in DOMAIN requests[k] :
              /\ requests[k][m].role = "user"
              /\ requests[k][m].content = requests[j][2].content
        /\ \E m \in DOMAIN requests[k] :
              /\ requests[k][m].role = "assistant"
              /\ requests[k][m].content = <<Lit(replies[j])>>

-----------------------------------------------------------------------------
(* Properties of the server tools, under SpecTools *)

\* C7: calculate_bmi(w, h) is w / h**2 for positive w and h -- the value
\* times h times h is w -- and with h = 0 the call ends in an error.
C7_Bmi ==
    toolCall.name = "calculate_bmi" =>
        /\ toolCall.height_m.num > 0 =>
              /\ toolResult.kind = "value"
              /\ toolResult.value.den > 0
              /\ RatEq(RatMul(toolResult.value,
                              RatMul(toolCall.height_m, toolCall.height_m)),
                       toolCall.weight_kg)
        /\ toolCall.height_m.num = 0 => toolResult.kind = "error"

\* C7, reached: a call with a fractional height that returned a value.
C7_Witness ==
    /\ toolCall.name = "calculate_bmi"
    /\ toolCall.height_m = Rat(3, 2)
    /\ toolCall.weight_kg = Rat(3, 1)
    /\ toolResult.kind = "value"

\* C9: an invocation of fetch_weather issues exactly one GET, to the weather
\* URL of its coordinates; it returns the body of the response unchanged,
\* and a network failure of that GET is the invocation's error.
C9_OneGet ==
    toolCall.name = "fetch_weather" =>
        /\ Len(httpGets) = 1
        /\ httpGets[1].latitude = toolCall.latitude
        /\ httpGets[1].longitude = toolCall.longitude
        /\ toolCall.net[1].kind = "response" =>
              toolResult = [kind |-> "value", value |-> toolCall.net[1].text]
        /\ toolCall.net[1].kind = "error" =>
              toolResult = [kind |-> "error", error |-> toolCall.net[1].text]

\* C9, reached: the GET failed where a second GET would have been answered,
\* and the invocation ended in the error after its one GET.
C9_Witness ==
    /\ toolCall.name = "fetch_weather"
    /\ toolCall.net[1].kind = "error"
    /\ toolCall.net[2].kind = "response"
    /\ toolResult.kind = "error"
    /\ Len(httpGets) = 1

-----------------------------------------------------------------------------
(* Properties of process_local_prompt, under SpecPrompt *)

\* C10: process_local_prompt sends a completion request only after its
\* validation succeeded: with an unknown prompt id, or a required argument
\* missing from args, it raises and sends nothing.
C10_ValidatedBeforeSend ==
    promptCall.name # "none" =>
        LET unknown == promptCall.name \notin {"weather-assistant", "code-helper"}
            missing == IF unknown THEN {}
                       ELSE {a \in ArgNames :
                               /\ \E i \in DOMAIN DUMMY_PROMPTS[promptCall.name].required_args :
                                     DUMMY_PROMPTS[promptCall.name].required_args[i] = a
                               /\ a \notin DOMAIN promptCall.args}
        IN  /\ unknown =>
                 /\ promptResult.kind = "raise"
                 /\ promptResult.error = "Unknown prompt"
                 /\ promptSent = <<>>
            /\ missing # {} =>
                 /\ promptResult.kind = "raise"
                 /\ promptResult.error = "Missing required argument"
                 /\ promptResult.detail \in missing
                 /\ promptSent = <<>>
            /\ (~unknown /\ missing = {}) => Len(promptSent) = 1

\* C10, reached: a known prompt called with its first required argument but
\* not its last raised and sent nothing.
C10_Witness ==
    /\ promptCall.name = "weather-assistant"
    /\ "location" \in DOMAIN promptCall.args
    /\ "conditions" \notin DOMAIN promptCall.args
    /\ promptResult.kind = "raise"
    /\ promptSent = <<>>

-----------------------------------------------------------------------------
(* Properties of the Command Router, under SpecRouter *)

\* Two characters are the same letter, whatever their case.
SameLetter(c, d) ==
    \/ c = d
    \/ \E n \in 1..Len(Lowers) : {c, d} = {Lowers[n], Uppers[n]}

\* word occurs in line at some position, letter case aside.
Occurs(word, line) ==
    \E i \in 1..(Len(line) - Len(word) + 1) :
        \A j \in 1..Len(word) : SameLetter(line[i + j - 1], word[j])

\* line is word, letter case aside.
IsWord(word, line) ==
    /\ Len(line) = Len(word)
    /\ \A j \in 1..Len(word) : SameLetter(line[j], word[j])

\* The entries of the table with a keyword that occurs in line.
Bound(line) ==
    {n \in 1..Len(LOCAL_FUNCTIONS) :
        \E k \in LOCAL_FUNCTIONS[n].keywords : Occurs(k, line)}

\* C5: an input in which a registered keyword occurs anywhere, in any letter
\* case, goes to the tool of the first table entry with such a keyword, an
\* input with no keyword goes to remote completion, and each input takes
\* exactly one of the two paths.
C5_Routing ==
    /\ lastRoute.kind \in {"tool", "completion"} =>
          /\ (lastRoute.kind = "tool") <=> (Bound(lastInput) # {})
          /\ lastRoute.kind = "tool" =>
                /\ \E n \in Bound(lastInput) :
                      /\ \A o \in Bound(lastInput) : n <= o
                      /\ lastRoute.tool = LOCAL_FUNCTIONS[n].tool
                /\ toolCalls # <<>>
                /\ toolCalls[Len(toolCalls)] = lastRoute.tool
    /\ Len(toolCalls) + Len(completions) = exchanges

\* C5, reached: a line with a weather keyword in capitals inside it, and a
\* keyword of the later entry too, went to the weather tool.
C5_Witness ==
    /\ lastRoute.kind = "tool"
    /\ lastRoute.tool = "fetch_weather"
    /\ Occurs(W_bmi, lastInput)
    /\ Lower(lastInput) # lastInput
    /\ ~IsWord(W_weather, lastInput)
    /\ ~IsWord(W_forecast, lastInput)

\* C6: the loop ends exactly on an input that is "exit" in any letter case,
\* and the iteration that ends it makes no tool call and no completion
\* request.
C6_Exit ==
    [][ /\ (routerPc = "loop" /\ routerPc' = "exited") =>
              /\ IsWord(W_exit, lastInput')
              /\ UNCHANGED <<toolCalls, completions, transcript, exchanges>>
        /\ (routerPc = "loop" /\ routerPc' = "loop") =>
              /\ ~IsWord(W_exit, lastInput')
              /\ Len(toolCalls') + Len(completions') =
                    Len(toolCalls) + Len(completions) + 1
        /\ routerPc = "exited" => routerPc' = "exited"
      ]_routerVars

\* C6, reached: the loop ended on "EXIT" after an exchange.
C6_Witness ==
    /\ routerPc = "exited"
    /\ lastInput = <<"E", "X", "I", "T">>
    /\ exchanges = 1
    /\ Len(toolCalls) + Len(completions) = 1

====
